---------------------------- MODULE Spec2Model ----------------------------
(***************************************************************************)
(* A model of the Graph RAG core (src/graph_rag.py, class GraphRAG).       *)
(*                                                                         *)
(* Strings are modelled by what the code does with them.  A text is a      *)
(* sequence of tokens: a word token [k |-> "w", id, len] is a maximal run  *)
(* of len non-whitespace characters (id tells one word from another), a    *)
(* whitespace token [k |-> "s", id, len] is a run of len copies of the     *)
(* whitespace character id (0: space, 1: newline).  Texts are kept         *)
(* canonical: no two word tokens are adjacent.                             *)
(***************************************************************************)
EXTENDS Integers, Sequences, FiniteSets, TLC

VARIABLES
    \* chunk_text_with_pages
    \* (iter_parity: the parity of the number of while iterations executed)
    pages_data, chunk_size, overlap, chunks, page_idx, words, i, cpc, iter_parity,
    \* the graph database: nodes by element id, and edges
    nodes, edges,
    \* store_in_neo4j: entity_ids, the loop variables entity and rel, the
    \* position, how the last call ended, and the number of loop iterations
    \* (entities and relationships) all calls have run so far
    entity_ids, entity, rel, spc, store_result, n_items,
    \* the label sanitizers applied to one raw type string
    raw_type, label_out, lpc,
    \* answer_question, with query_vector_search and generate_embedding inside:
    \* the question, the position, generate_embedding's embedding and loop
    \* index, the matches, the index of the match loop, context_parts,
    \* sources_dict, the chat calls made, and how the call ended
    question, apc, emb_response, embedding, fb_i, vector_results, match_idx,
    context_parts, sources_dict, context, chat_calls, answer_result,
    \* extract_entities_with_llm: the position, the reply's content, start,
    \* end, and how the call ended
    epc, content, start, end, extract_result,
    \* the vector index (records by id), and store_in_pinecone: the position,
    \* its arguments, vectors, and the loop index
    index, ipc, store_chunks, doc_id, original_filename, vectors, chunk_num

chunk_vars ==
    <<pages_data, chunk_size, overlap, chunks, page_idx, words, i, cpc, iter_parity>>

graph_vars ==
    <<nodes, edges, entity_ids, entity, rel, spc, store_result, n_items>>

label_vars == <<raw_type, label_out, lpc>>

rag_vars ==
    <<question, apc, emb_response, embedding, fb_i, vector_results, match_idx,
      context_parts, sources_dict, context, chat_calls, answer_result>>

extract_vars == <<epc, content, start, end, extract_result>>

pine_vars ==
    <<index, ipc, store_chunks, doc_id, original_filename, vectors, chunk_num>>

vars == <<chunk_vars, graph_vars, label_vars, rag_vars, extract_vars, pine_vars>>

Min(a, b) == IF a < b THEN a ELSE b
Max(a, b) == IF a > b THEN a ELSE b

(***************************************************************************)
(* Bounds of the model.                                                    *)
(***************************************************************************)
MaxPages == 2
MaxWords == 4
MaxChunkSize == 3
MaxBack == 3
MaxTypeLen == 3
MaxItems == 5
MaxQuestions == 2
MaxMatches == 2
MaxReplyLines == 2
MaxReplyLen == 5
MaxRanked == 6
MaxStoreChunks == 2

(***************************************************************************)
(* Program constants.                                                      *)
(***************************************************************************)
MinChunkChars == 50
DefaultChunkSize == 600
DefaultOverlap == 100
EmbeddingDim == 1024
DigestLen == 64
MinContextChars == 100
MaxContexts == 5
TopK == 10
MinAnswerChars == 20
MaxCitedPages == 3
ShortLineChars == 50
StoredTextChars == 1000

(***************************************************************************)
(* The components at rest: the values of their variables when no call of   *)
(* theirs is in progress.                                                  *)
(***************************************************************************)
ChunkIdle ==
    /\ pages_data = <<>>
    /\ chunk_size = DefaultChunkSize
    /\ overlap = DefaultOverlap
    /\ chunks = <<>>
    /\ page_idx = 0
    /\ words = <<>>
    /\ i = 0
    /\ cpc = "idle"
    /\ iter_parity = 0

GraphIdle ==
    /\ nodes = <<>>
    /\ edges = {}
    /\ entity_ids = <<>>
    /\ entity = <<>>
    /\ rel = <<>>
    /\ spc = "idle"
    /\ store_result = "none"
    /\ n_items = 0

LabelIdle ==
    /\ raw_type = <<>>
    /\ label_out = <<>>
    /\ lpc = "idle"

\* The embedding model's response when it has not been called, or has failed.
NoResponse == [ok |-> FALSE, embedding |-> <<>>]

\* The answer when no call has ended yet.
NoResult == [kind |-> "none", msg |-> "none", lines |-> <<>>, sources |-> <<>>]

RagIdle ==
    /\ question = 0
    /\ apc = "idle"
    /\ emb_response = NoResponse
    /\ embedding = <<>>
    /\ fb_i = 0
    /\ vector_results = <<>>
    /\ match_idx = 0
    /\ context_parts = <<>>
    /\ sources_dict = <<>>
    /\ context = <<>>
    /\ chat_calls = 0
    /\ answer_result = NoResult

\* The value extract_entities_with_llm returns when extraction fails:
\* {"entities": [], "relationships": []}.  A dict is a record of what it holds
\* under "entities", under "relationships" and under any other key.
EmptyResult == [entities |-> "list", relationships |-> "list", other |-> "absent"]

\* No call of extract_entities_with_llm has ended yet.
NoExtraction == [kind |-> "none", value |-> EmptyResult]

ExtractIdle ==
    /\ epc = "idle"
    /\ content = <<>>
    /\ start = -1
    /\ end = 0
    /\ extract_result = NoExtraction

\* original_filename = None (or the empty string): a falsy value.
None == <<>>

PineIdle ==
    /\ index = <<>>
    /\ ipc = "idle"
    /\ store_chunks = <<>>
    /\ doc_id = <<>>
    /\ original_filename = None
    /\ vectors = <<>>
    /\ chunk_num = 0

(***************************************************************************)
(* Python string and list operations on token texts.                       *)
(***************************************************************************)
Space == [k |-> "s", id |-> 0, len |-> 1]

Word(n, l) == [k |-> "w", id |-> n, len |-> l]

\* len(s) of a text, or of any sequence of tokens: the characters it holds.
RECURSIVE SumLen(_, _, _)
SumLen(s, lo, hi) ==
    IF lo > hi THEN 0
    ELSE IF lo = hi THEN s[lo].len
    ELSE LET mid == (lo + hi) \div 2
         IN  SumLen(s, lo, mid) + SumLen(s, mid + 1, hi)

StrLen(s) == SumLen(s, 1, Len(s))

\* str.split(): the maximal non-whitespace runs, in order.
Split(text) == SelectSeq(text, LAMBDA t : t.k = "w")

\* " ".join(ws)
Join(ws) ==
    IF ws = <<>> THEN <<>>
    ELSE [j \in 1..(2 * Len(ws) - 1) |->
            IF j % 2 = 1 THEN ws[(j + 1) \div 2] ELSE Space]

\* str.strip(): the text without its leading and trailing whitespace.
Strip(s) ==
    LET idx == {j \in 1..Len(s) : s[j].k = "w"}
    IN  IF idx = {} THEN <<>>
        ELSE LET lo == CHOOSE j \in idx : \A m \in idx : j <= m
                 hi == CHOOSE j \in idx : \A m \in idx : j >= m
             IN  SubSeq(s, lo, hi)

\* s[lo:hi] of Python: negative indices count from the end, both are clamped.
PySlice(s, lo, hi) ==
    LET n  == Len(s)
        l0 == IF lo < 0 THEN Max(lo + n, 0) ELSE Min(lo, n)
        h0 == IF hi < 0 THEN Max(hi + n, 0) ELSE Min(hi, n)
    IN  SubSeq(s, l0 + 1, h0)

(***************************************************************************)
(* Inputs of chunk_text_with_pages.                                        *)
(***************************************************************************)
WordLens == {25, 50, 51}

\* The whitespace between two words: one space, two spaces, one newline.
Seps == { <<Space>>, <<[k |-> "s", id |-> 0, len |-> 2]>>,
          <<[k |-> "s", id |-> 1, len |-> 1]>> }

\* A page text of n words of l characters, sep between them, and lead = 1
\* for a text that also starts and ends with a newline.
MkText(n, l, sep, lead) ==
    LET body == [j \in 1..(IF n = 0 THEN 0 ELSE 2 * n - 1) |->
                    IF j % 2 = 1 THEN Word((j + 1) \div 2, l) ELSE sep[1]]
        nl   == <<[k |-> "s", id |-> 1, len |-> 1]>>
    IN  IF lead = 1 THEN nl \o body \o nl ELSE body

\* Pages as extract_text_from_pdf numbers them: page_num is 1-indexed.
MkPages(counts, l, sep, lead) ==
    [p \in 1..Len(counts) |->
        [text |-> MkText(counts[p], l, sep, lead), page_num |-> p]]

WordCounts == UNION {[1..m -> 0..MaxWords] : m \in 0..MaxPages}

\* The two-page document of the end-to-end scenario: 50 and 1200 words.
ScenarioPages == MkPages(<<50, 1200>>, 5, <<Space>>, 0)

(***************************************************************************)
(* chunk_text_with_pages, one action per step of its loops.                *)
(***************************************************************************)
\* The locals of a call that has not started its loops.
ChunkEntry ==
    /\ chunks = <<>>
    /\ page_idx = 0
    /\ words = <<>>
    /\ i = 0
    /\ cpc = "for"
    /\ iter_parity = 0

\* Calls on small documents, with every chunk_size and overlap of the bounds.
SmallChunkInit ==
    /\ \E counts \in WordCounts, l \in WordLens, sep \in Seps, lead \in 0..1 :
            pages_data = MkPages(counts, l, sep, lead)
    /\ chunk_size \in 1..MaxChunkSize
    /\ overlap \in 0..(MaxChunkSize + 1)
    /\ ChunkEntry

\* The call of the end-to-end scenario, with the default chunk_size and overlap.
ScenarioChunkInit ==
    /\ pages_data = ScenarioPages
    /\ chunk_size = DefaultChunkSize
    /\ overlap = DefaultOverlap
    /\ ChunkEntry

ChunkInit == SmallChunkInit \/ ScenarioChunkInit

\* A slip: ">=" for ">".
KeepChunkAtLeast(chunk_text) == StrLen(Strip(chunk_text)) >= MinChunkChars

\* if len(chunk_text.strip()) > 50
KeepChunk(chunk_text) == StrLen(Strip(chunk_text)) > MinChunkChars

\* A slip: the overlap forgotten.
AdvanceNoOverlap(idx, cs, ov) == idx + cs

\* i += (chunk_size - overlap)
Advance(idx, cs, ov) == idx + (cs - ov)

\* The cap on runs that never end: the list and the index stay in the model.
ChunkCap == MaxPages * MaxWords + 2

\* for page_data in pages_data: the next page, its words, i = 0.
ForPage ==
    /\ cpc = "for"
    /\ page_idx < Len(pages_data)
    /\ page_idx' = page_idx + 1
    /\ words' = Split(pages_data[page_idx + 1].text)
    /\ i' = 0
    /\ cpc' = "while"
    /\ UNCHANGED <<pages_data, chunk_size, overlap, chunks, iter_parity>>
    /\ UNCHANGED <<graph_vars, label_vars, rag_vars, extract_vars, pine_vars>>

\* One iteration of while i < len(words).
WhileStep ==
    /\ cpc = "while"
    /\ i < Len(words)
    /\ i > -MaxBack
    /\ Len(chunks) < ChunkCap
    /\ LET chunk_text == Join(PySlice(words, i, i + chunk_size))
       IN  chunks' = IF KeepChunk(chunk_text)
                     THEN Append(chunks,
                            [text |-> chunk_text,
                             page_num |-> pages_data[page_idx].page_num])
                     ELSE chunks
    /\ i' = Advance(i, chunk_size, overlap)
    /\ iter_parity' = 1 - iter_parity
    /\ UNCHANGED <<pages_data, chunk_size, overlap, page_idx, words, cpc>>
    /\ UNCHANGED <<graph_vars, label_vars, rag_vars, extract_vars, pine_vars>>

\* The while loop ends: back to the for loop.
WhileExit ==
    /\ cpc = "while"
    /\ i >= Len(words)
    /\ cpc' = "for"
    /\ UNCHANGED <<pages_data, chunk_size, overlap, chunks, page_idx, words, i, iter_parity>>
    /\ UNCHANGED <<graph_vars, label_vars, rag_vars, extract_vars, pine_vars>>

\* return chunks
ChunkReturn ==
    /\ cpc = "for"
    /\ page_idx = Len(pages_data)
    /\ cpc' = "done"
    /\ UNCHANGED <<pages_data, chunk_size, overlap, chunks, page_idx, words, i, iter_parity>>
    /\ UNCHANGED <<graph_vars, label_vars, rag_vars, extract_vars, pine_vars>>

ChunkNext == ForPage \/ WhileStep \/ WhileExit \/ ChunkReturn

ChunkSpecInit == ChunkInit /\ GraphIdle /\ LabelIdle /\ RagIdle /\ ExtractIdle /\ PineIdle

ChunkSpec == ChunkSpecInit /\ [][ChunkNext]_vars

FairChunkSpecInit == SmallChunkInit /\ GraphIdle /\ LabelIdle /\ RagIdle /\ ExtractIdle /\ PineIdle

\* The code is sequential: a step that can be taken is taken.
FairChunkSpec == FairChunkSpecInit /\ [][ChunkNext]_vars /\ WF_vars(ChunkNext)

(***************************************************************************)
(* Type strings of entities and relationships: sequences of characters.    *)
(* "a" and "A" stand for the letters, "1" for the digits, "-" for the      *)
(* characters that are neither letters, digits, underscore, space nor pipe.*)
(***************************************************************************)
Alphabet == {"a", "A", "1", " ", "|", "-"}

Letters == {"a", "A", "E", "n", "t", "i", "y", "R", "L", "T", "D", "O"}

Digits == {"1"}

TypeStrings == UNION {[1..m -> Alphabet] : m \in 0..MaxTypeLen}

DefaultEntityType == <<"E", "n", "t", "i", "t", "y">>

DefaultRelType == <<"R", "E", "L", "A", "T", "E", "D", "_", "T", "O">>

\* c in s
Contains(s, c) == \E j \in 1..Len(s) : s[j] = c

\* s.split(c)[0]: the text before the first c.
SplitFirst(s, c) ==
    IF Contains(s, c)
    THEN SubSeq(s, 1, (CHOOSE j \in 1..Len(s) :
                          s[j] = c /\ \A m \in 1..(j - 1) : s[m] # c) - 1)
    ELSE s

\* s.strip() on characters.
StripChars(s) ==
    LET idx == {j \in 1..Len(s) : s[j] # " "}
    IN  IF idx = {} THEN <<>>
        ELSE LET lo == CHOOSE j \in idx : \A m \in idx : j <= m
                 hi == CHOOSE j \in idx : \A m \in idx : j >= m
             IN  SubSeq(s, lo, hi)

\* s.replace(a, b) for single characters.
Replace(s, a, b) == [j \in 1..Len(s) |-> IF s[j] = a THEN b ELSE s[j]]

\* s.upper()
Upper(s) == [j \in 1..Len(s) |-> IF s[j] = "a" THEN "A" ELSE s[j]]

\* The sanitized entity type: the label interpolated into MERGE (n:<label> ...).
EntityLabel(entity_type) ==
    LET t1 == IF Contains(entity_type, "|")
              THEN StripChars(SplitFirst(entity_type, "|"))
              ELSE entity_type
    IN  IF t1 = <<>> \/ t1[1] \notin Letters THEN DefaultEntityType ELSE t1

\* The sanitized relationship type: interpolated into MERGE (a)-[r:<type>]->(b).
RelType(rel_type) ==
    LET t1 == Upper(Replace(Replace(rel_type, " ", "_"), "|", "_"))
    IN  IF t1 = <<>> \/ Len(t1) < 2 THEN DefaultRelType ELSE t1

\* The characters of a schema identifier: letters, digits, underscore.
LegalChars(s) == \A j \in 1..Len(s) : s[j] \in Letters \cup Digits \cup {"_"}

\* What the database parses as a label or relationship type in the query.
ValidIdentifier(s) == s # <<>> /\ LegalChars(s) /\ s[1] \notin Digits

(***************************************************************************)
(* The two sanitizers of store_in_neo4j applied to one raw type string.    *)
(***************************************************************************)
LabelInit ==
    /\ raw_type \in TypeStrings
    /\ label_out = <<>>
    /\ lpc = "raw"

\* Lines 113-120: the entity's type becomes the label of the MERGE query.
EntityQueryLabel ==
    /\ lpc = "raw"
    /\ label_out' = EntityLabel(raw_type)
    /\ lpc' = "entity"
    /\ UNCHANGED raw_type
    /\ UNCHANGED <<chunk_vars, graph_vars, rag_vars, extract_vars, pine_vars>>

\* Lines 133-139: the relationship's type becomes the type of the MERGE query.
RelQueryLabel ==
    /\ lpc = "raw"
    /\ label_out' = RelType(raw_type)
    /\ lpc' = "rel"
    /\ UNCHANGED raw_type
    /\ UNCHANGED <<chunk_vars, graph_vars, rag_vars, extract_vars, pine_vars>>

LabelNext == EntityQueryLabel \/ RelQueryLabel

LabelSpecInit == LabelInit /\ ChunkIdle /\ GraphIdle /\ RagIdle /\ ExtractIdle /\ PineIdle

LabelSpec == LabelSpecInit /\ [][LabelNext]_vars

(***************************************************************************)
(* store_in_neo4j against the graph database.                              *)
(***************************************************************************)
Names == {"wheat", "rust"}

GraphEntityTypes == { <<"a">>, <<"1">>, <<"a", "-">> }

GraphRelTypes == { <<"a", " ">>, <<"a", "-">> }

\* The entities the extractor may hand over: with and without the optional keys.
Entities ==
    [name : Names, type : GraphEntityTypes, description : {"d"}]
        \cup [name : Names]

Rels == [from : Names, to : Names, type : GraphRelTypes]

\* entity.get('type', 'Entity')
EntityType(e) == IF "type" \in DOMAIN e THEN e.type ELSE DefaultEntityType

\* entity.get('description', '')
EntityDescription(e) == IF "description" \in DOMAIN e THEN e.description ELSE ""

\* The nodes MERGE (n:<label> {name: $name}) matches.
MergeMatch(ns, label, name) ==
    {j \in 1..Len(ns) : ns[j].label = label /\ ns[j].name = name}

\* MERGE (n:<label> {name: $name}) SET n.description = $description
MergeNode(ns, label, name, description) ==
    LET m == MergeMatch(ns, label, name)
    IN  IF m = {}
        THEN Append(ns, [label |-> label, name |-> name, description |-> description])
        ELSE [j \in 1..Len(ns) |->
                IF j \in m THEN [ns[j] EXCEPT !.description = description] ELSE ns[j]]

\* RETURN elementId(n)
MergedId(ns, label, name) ==
    LET m == MergeMatch(ns, label, name)
    IN  IF m = {} THEN Len(ns) + 1 ELSE CHOOSE j \in m : TRUE

\* A slip: "or" for "and".
ResolvedEither(ids, r) == ids[r.from] # 0 \/ ids[r.to] # 0

\* from_id and to_id: both endpoints were resolved by this call (0 is None).
Resolved(ids, r) == ids[r.from] # 0 /\ ids[r.to] # 0

\* The call starts: with self.neo4j_driver.session() as session; entity_ids = {}
StoreBegin ==
    /\ spc = "idle"
    /\ n_items < MaxItems
    /\ entity_ids' = [n \in Names |-> 0]
    /\ entity' = <<>>
    /\ rel' = <<>>
    /\ spc' = "entities"
    /\ store_result' = "none"
    /\ UNCHANGED <<nodes, edges, n_items>>
    /\ UNCHANGED <<chunk_vars, label_vars, rag_vars, extract_vars, pine_vars>>

\* One iteration of for entity in entities, the query succeeding.
StoreEntity ==
    /\ spc = "entities"
    /\ n_items < MaxItems
    /\ \E e \in Entities :
        LET label == EntityLabel(EntityType(e))
        IN  /\ ValidIdentifier(label)
            /\ entity' = e
            /\ nodes' = MergeNode(nodes, label, e.name, EntityDescription(e))
            /\ entity_ids' = [entity_ids EXCEPT
                                ![e.name] = MergedId(nodes, label, e.name)]
    /\ n_items' = n_items + 1
    /\ UNCHANGED <<edges, rel, spc, store_result>>
    /\ UNCHANGED <<chunk_vars, label_vars, rag_vars, extract_vars, pine_vars>>

\* One iteration of for entity in entities, session.run raising: the label
\* is not an identifier, or the database fails.  Nothing catches it.
StoreEntityRaises ==
    /\ spc = "entities"
    /\ n_items < MaxItems
    /\ \E e \in Entities, db_ok \in BOOLEAN :
        /\ ~(db_ok /\ ValidIdentifier(EntityLabel(EntityType(e))))
        /\ entity' = e
    /\ n_items' = n_items + 1
    /\ spc' = "idle"
    /\ store_result' = "raised"
    /\ UNCHANGED <<nodes, edges, entity_ids, rel>>
    /\ UNCHANGED <<chunk_vars, label_vars, rag_vars, extract_vars, pine_vars>>

\* The entity loop ends.
EntitiesDone ==
    /\ spc = "entities"
    /\ spc' = "rels"
    /\ UNCHANGED <<nodes, edges, entity_ids, entity, rel, store_result, n_items>>
    /\ UNCHANGED <<chunk_vars, label_vars, rag_vars, extract_vars, pine_vars>>

\* One iteration of for rel in relationships: an endpoint is not in entity_ids.
StoreRelSkip ==
    /\ spc = "rels"
    /\ n_items < MaxItems
    /\ \E r \in Rels :
        /\ ~Resolved(entity_ids, r)
        /\ rel' = r
    /\ n_items' = n_items + 1
    /\ UNCHANGED <<nodes, edges, entity_ids, entity, spc, store_result>>
    /\ UNCHANGED <<chunk_vars, label_vars, rag_vars, extract_vars, pine_vars>>

\* One iteration: both endpoints resolved, the MERGE of the edge succeeds.
StoreRel ==
    /\ spc = "rels"
    /\ n_items < MaxItems
    /\ \E r \in Rels :
        /\ Resolved(entity_ids, r)
        /\ ValidIdentifier(RelType(r.type))
        /\ rel' = r
        /\ edges' = edges \cup {[from |-> entity_ids[r.from],
                                 type |-> RelType(r.type),
                                 to   |-> entity_ids[r.to]]}
    /\ n_items' = n_items + 1
    /\ UNCHANGED <<nodes, entity_ids, entity, spc, store_result>>
    /\ UNCHANGED <<chunk_vars, label_vars, rag_vars, extract_vars, pine_vars>>

\* One iteration: both endpoints resolved, session.run raises and the
\* except clause logs it.
StoreRelFails ==
    /\ spc = "rels"
    /\ n_items < MaxItems
    /\ \E r \in Rels, db_ok \in BOOLEAN :
        /\ Resolved(entity_ids, r)
        /\ ~(db_ok /\ ValidIdentifier(RelType(r.type)))
        /\ rel' = r
    /\ n_items' = n_items + 1
    /\ UNCHANGED <<nodes, edges, entity_ids, entity, spc, store_result>>
    /\ UNCHANGED <<chunk_vars, label_vars, rag_vars, extract_vars, pine_vars>>

\* The relationship loop ends and the call returns.
StoreReturn ==
    /\ spc = "rels"
    /\ spc' = "idle"
    /\ store_result' = "returned"
    /\ UNCHANGED <<nodes, edges, entity_ids, entity, rel, n_items>>
    /\ UNCHANGED <<chunk_vars, label_vars, rag_vars, extract_vars, pine_vars>>

GraphNext ==
    \/ StoreBegin
    \/ StoreEntity
    \/ StoreEntityRaises
    \/ EntitiesDone
    \/ StoreRelSkip
    \/ StoreRel
    \/ StoreRelFails
    \/ StoreReturn

GraphSpecInit == GraphIdle /\ ChunkIdle /\ LabelIdle /\ RagIdle /\ ExtractIdle /\ PineIdle

GraphSpec == GraphSpecInit /\ [][GraphNext]_vars

(***************************************************************************)
(* generate_embedding.  A component of the model's vector is a number; a   *)
(* component of the fallback vector is kept exact, in units of 1/25500.    *)
(***************************************************************************)
Questions == 1..MaxQuestions

\* hashlib.sha256(text.encode()).hexdigest(): 64 hex digits that depend on
\* the text alone.
HexDigest(t) == [j \in 1..DigestLen |-> (j * (2 * t + 1) + t) % 16]

\* int(text_hash[p:p + 2], 16) with p = i % len(text_hash): the slice holds
\* two digits, or the last digit alone.
ByteVal(h, idx) ==
    LET p == idx % Len(h)
    IN  IF p + 2 <= Len(h) THEN 16 * h[p + 1] + h[p + 2] ELSE h[p + 1]

\* (byte_val / 255.0 * 2) - 1 + 0.01, times 25500.
FallbackComponent(h, idx) == 200 * ByteVal(h, idx) - 25500 + 255

\* The lengths of the vector the embedding model may return.
NativeLens ==
    {0, 1, 768, EmbeddingDim - 1, EmbeddingDim, EmbeddingDim + 1, 2 * EmbeddingDim}

NativeVector(n) == [j \in 1..n |-> j]

\* A slip: a longer vector is not cut.
PadOnly(e) ==
    IF Len(e) < EmbeddingDim
    THEN e \o [j \in 1..(EmbeddingDim - Len(e)) |-> 0]
    ELSE e

\* Lines 189-193: pad with zeros to 1024, or keep the first 1024.
PadOrTruncate(e) ==
    IF Len(e) < EmbeddingDim
    THEN e \o [j \in 1..(EmbeddingDim - Len(e)) |-> 0]
    ELSE IF Len(e) > EmbeddingDim THEN SubSeq(e, 1, EmbeddingDim) ELSE e

(***************************************************************************)
(* The matches of the vector index and the replies of the chat model.      *)
(***************************************************************************)
\* The values a match's metadata may hold under 'text': a string of len
\* characters (id tells the texts apart), or a value that is no string.
ShortText == [kind |-> "str", id |-> 1, len |-> MinContextChars]
LongText == [kind |-> "str", id |-> 2, len |-> MinContextChars + 1]
EmptyText == [kind |-> "str", id |-> 0, len |-> 0]
NotAString == [kind |-> "num", id |-> 0, len |-> 0]

\* Under 'page_num': a number, or a value that is no number.
PageNum(n) == [kind |-> "num", v |-> n]
NotANumber == [kind |-> "str", v |-> 0]

Filenames == {"a.pdf", "b.pdf"}

UnknownSource == "unknown"

\* The metadata of a match: all keys present, or only doc_id.
Metadata ==
    [text : {ShortText, LongText, NotAString},
     original_filename : Filenames,
     page_num : {PageNum(0), PageNum(1), NotANumber}]
        \cup [doc_id : {"a.pdf"}]

\* Longer result lists, every match with a text that qualifies: the matches
\* come from a.pdf except the last, which comes from f, and their pages are
\* all page 1, or ascend with the rank, or descend with it.
PagePatterns == {"same", "ascending", "descending"}

RankedList(n, f, pattern) ==
    [j \in 1..n |->
        [text |-> LongText,
         original_filename |-> IF j = n THEN f ELSE "a.pdf",
         page_num |-> PageNum(CASE pattern = "same" -> 1
                                [] pattern = "ascending" -> j
                                [] OTHER -> n + 1 - j)]]

RankedLists ==
    {RankedList(n, f, pattern) :
        n \in (MaxMatches + 1)..Min(MaxRanked, TopK), f \in Filenames,
        pattern \in PagePatterns}

\* What the index may return for top_k = 10.
MatchLists ==
    UNION {[1..m -> Metadata] : m \in 0..Min(MaxMatches, TopK)} \cup RankedLists

\* match.metadata.get('text', '')
MetaText(md) == IF "text" \in DOMAIN md THEN md.text ELSE EmptyText

\* match.metadata.get('original_filename', match.metadata.get('doc_id', ...))
MetaFilename(md) ==
    IF "original_filename" \in DOMAIN md THEN md.original_filename
    ELSE IF "doc_id" \in DOMAIN md THEN md.doc_id
    ELSE UnknownSource

\* match.metadata.get('page_num', 0)
MetaPage(md) == IF "page_num" \in DOMAIN md THEN md.page_num ELSE PageNum(0)

\* A slip: ">=" for ">".
QualifiesAtLeast(md) == MetaText(md).len >= MinContextChars

\* len(text) > 100
Qualifies(md) == MetaText(md).len > MinContextChars

\* len(text) raises a TypeError, or page_num > 0 does once the text is kept.
Malformed(md) ==
    \/ MetaText(md).kind # "str"
    \/ Qualifies(md) /\ MetaPage(md).kind # "num"

\* A slip: the page is appended even when the list holds it.
TrackSourceNoDedup(sd, filename, page) ==
    LET known == \E j \in 1..Len(sd) : sd[j].filename = filename
        sd1   == IF known THEN sd
                 ELSE Append(sd, [filename |-> filename, pages |-> <<>>])
    IN  [j \in 1..Len(sd1) |->
            IF sd1[j].filename = filename /\ page > 0
            THEN [sd1[j] EXCEPT !.pages = Append(@, page)]
            ELSE sd1[j]]

\* Lines 254-257: sources_dict, a list of [filename, pages] in insertion order.
TrackSource(sd, filename, page) ==
    LET known == \E j \in 1..Len(sd) : sd[j].filename = filename
        sd1   == IF known THEN sd
                 ELSE Append(sd, [filename |-> filename, pages |-> <<>>])
    IN  [j \in 1..Len(sd1) |->
            IF /\ sd1[j].filename = filename
               /\ page > 0
               /\ \A m \in 1..Len(sd1[j].pages) : sd1[j].pages[m] # page
            THEN [sd1[j] EXCEPT !.pages = Append(@, page)]
            ELSE sd1[j]]

\* A line of a reply: lead leading whitespace characters, then len characters
\* that start with one of the metadata markers (head) or with none of them,
\* and hold the publisher word (pub) or not.
Line(lead, head, pub, len) == [lead |-> lead, head |-> head, pub |-> pub, len |-> len]

ReplyLines ==
    { Line(0, "none", FALSE, 30), Line(0, "none", FALSE, 10), Line(0, "uot", FALSE, 10),
      Line(1, "uot", FALSE, 10), Line(0, "none", TRUE, 10), Line(0, "none", FALSE, 0),
      Line(0, "none", FALSE, 20) }

Replies == UNION {[1..m -> ReplyLines] : m \in 0..MaxReplyLines}

\* line.strip()
StripLine(l) == [l EXCEPT !.lead = 0]

IsBlank(l) == l.len = 0

\* content.strip().split('\n'): no blank line at either end, no whitespace
\* before the first line; the empty string is the empty sequence.
StripReply(ls) ==
    LET idx == {j \in 1..Len(ls) : ~IsBlank(ls[j])}
    IN  IF idx = {} THEN <<>>
        ELSE LET lo == CHOOSE j \in idx : \A m \in idx : j <= m
                 hi == CHOOSE j \in idx : \A m \in idx : j >= m
                 in == SubSeq(ls, lo, hi)
             IN  [j \in 1..Len(in) |-> IF j = 1 THEN StripLine(in[j]) ELSE in[j]]

\* The any([...]) of lines 301-306.
IsMetadataLine(l) ==
    \/ l.lead = 0 /\ l.head \in {"uot", "rev", "prof"}
    \/ l.pub /\ l.lead + l.len < ShortLineChars

\* Lines 296-311.
CleanAnswer(ans) ==
    LET kept  == SelectSeq(ans, LAMBDA l : ~IsMetadataLine(l) /\ ~IsBlank(l))
        clean == [j \in 1..Len(kept) |-> StripLine(kept[j])]
    IN  IF clean # <<>> THEN clean ELSE ans

RECURSIVE LinesLen(_)
LinesLen(ls) ==
    IF ls = <<>> THEN 0
    ELSE ls[1].lead + ls[1].len + (IF Len(ls) > 1 THEN 1 ELSE 0) + LinesLen(Tail(ls))

\* sorted(pages): the list in ascending order, equal values kept.
RECURSIVE SortedSeq(_)
SortedSeq(ps) ==
    IF ps = <<>> THEN <<>>
    ELSE LET m    == CHOOSE j \in 1..Len(ps) : \A h \in 1..Len(ps) : ps[j] <= ps[h]
             rest == [j \in 1..(Len(ps) - 1) |-> IF j < m THEN ps[j] ELSE ps[j + 1]]
         IN  <<ps[m]>> \o SortedSeq(rest)

\* Lines 316-325: one citation per filename.
FormatSources(sd) ==
    [j \in 1..Len(sd) |->
        LET sorted == SortedSeq(sd[j].pages)
        IN  [filename |-> sd[j].filename,
             pages    |-> SubSeq(sorted, 1, Min(MaxCitedPages, Len(sorted))),
             more     |-> Len(sorted) > MaxCitedPages]]

\* Lines 293-329: what answer_question returns for a reply.
Answer(reply, sd) ==
    LET ans == CleanAnswer(StripReply(reply))
    IN  IF ans = <<>>
        THEN [kind |-> "returned", msg |-> "no_answer", lines |-> <<>>, sources |-> <<>>]
        ELSE [kind |-> "returned", msg |-> "answer", lines |-> ans,
              sources |-> IF sd # <<>> /\ LinesLen(ans) > MinAnswerChars
                          THEN FormatSources(sd) ELSE <<>>]

FixedMessage(m) == [kind |-> "returned", msg |-> m, lines |-> <<>>, sources |-> <<>>]

Raised == [kind |-> "raised", msg |-> "none", lines |-> <<>>, sources |-> <<>>]

(***************************************************************************)
(* answer_question, one action per step.                                   *)
(***************************************************************************)
RagInit ==
    /\ question \in Questions
    /\ apc = "embed"
    /\ emb_response = NoResponse
    /\ embedding = <<>>
    /\ fb_i = 0
    /\ vector_results = <<>>
    /\ match_idx = 0
    /\ context_parts = <<>>
    /\ sources_dict = <<>>
    /\ context = <<>>
    /\ chat_calls = 0
    /\ answer_result = NoResult

\* generate_embedding, the model answering: lines 181-196.
EmbedReturns ==
    /\ apc = "embed"
    /\ \E n \in NativeLens :
        /\ emb_response' = [ok |-> TRUE, embedding |-> NativeVector(n)]
        /\ embedding' = PadOrTruncate(NativeVector(n))
    /\ apc' = "query"
    /\ UNCHANGED <<question, fb_i, vector_results, match_idx, context_parts,
                   sources_dict, context, chat_calls, answer_result>>
    /\ UNCHANGED <<chunk_vars, graph_vars, label_vars, extract_vars, pine_vars>>

\* generate_embedding, the call raising: lines 198-203.
EmbedFails ==
    /\ apc = "embed"
    /\ emb_response' = NoResponse
    /\ embedding' = <<>>
    /\ fb_i' = 0
    /\ apc' = "fallback"
    /\ UNCHANGED <<question, vector_results, match_idx, context_parts,
                   sources_dict, context, chat_calls, answer_result>>
    /\ UNCHANGED <<chunk_vars, graph_vars, label_vars, extract_vars, pine_vars>>

\* One iteration of for i in range(1024): lines 204-207.
FallbackStep ==
    /\ apc = "fallback"
    /\ fb_i < EmbeddingDim
    /\ embedding' = Append(embedding, FallbackComponent(HexDigest(question), fb_i))
    /\ fb_i' = fb_i + 1
    /\ UNCHANGED <<question, apc, emb_response, vector_results, match_idx,
                   context_parts, sources_dict, context, chat_calls, answer_result>>
    /\ UNCHANGED <<chunk_vars, graph_vars, label_vars, extract_vars, pine_vars>>

\* return embedding: line 209.
FallbackReturns ==
    /\ apc = "fallback"
    /\ fb_i = EmbeddingDim
    /\ apc' = "query"
    /\ UNCHANGED <<question, emb_response, embedding, fb_i, vector_results,
                   match_idx, context_parts, sources_dict, context, chat_calls,
                   answer_result>>
    /\ UNCHANGED <<chunk_vars, graph_vars, label_vars, extract_vars, pine_vars>>

\* self.pinecone_index.query(...) returns its matches: lines 214-219, 238.
IndexQuery ==
    /\ apc = "query"
    /\ vector_results' \in MatchLists
    /\ match_idx' = 0
    /\ emb_response' = NoResponse
    /\ embedding' = <<>>
    /\ fb_i' = 0
    /\ apc' = "scan"
    /\ UNCHANGED <<question, context_parts, sources_dict, context, chat_calls,
                   answer_result>>
    /\ UNCHANGED <<chunk_vars, graph_vars, label_vars, extract_vars, pine_vars>>

\* self.pinecone_index.query(...) raises: nothing in answer_question catches it.
IndexQueryRaises ==
    /\ apc = "query"
    /\ emb_response' = NoResponse
    /\ embedding' = <<>>
    /\ fb_i' = 0
    /\ answer_result' = Raised
    /\ apc' = "done"
    /\ UNCHANGED <<question, vector_results, match_idx, context_parts,
                   sources_dict, context, chat_calls>>
    /\ UNCHANGED <<chunk_vars, graph_vars, label_vars, extract_vars, pine_vars>>

\* One iteration of for idx, match in enumerate(vector_results, 1).
ScanMatch ==
    /\ apc = "scan"
    /\ match_idx < Len(vector_results)
    /\ LET md == vector_results[match_idx + 1]
       IN  /\ ~Malformed(md)
           /\ context_parts' = IF Qualifies(md)
                               THEN Append(context_parts, MetaText(md))
                               ELSE context_parts
           /\ sources_dict' = IF Qualifies(md)
                              THEN TrackSource(sources_dict, MetaFilename(md),
                                               MetaPage(md).v)
                              ELSE sources_dict
    /\ match_idx' = match_idx + 1
    /\ UNCHANGED <<question, apc, emb_response, embedding, fb_i, vector_results,
                   context, chat_calls, answer_result>>
    /\ UNCHANGED <<chunk_vars, graph_vars, label_vars, extract_vars, pine_vars>>

\* One iteration on a match whose metadata makes len() or > raise: the loop
\* is outside the try.
ScanMatchRaises ==
    /\ apc = "scan"
    /\ match_idx < Len(vector_results)
    /\ Malformed(vector_results[match_idx + 1])
    /\ match_idx' = match_idx + 1
    /\ answer_result' = Raised
    /\ apc' = "done"
    /\ UNCHANGED <<question, emb_response, embedding, fb_i, vector_results,
                   context_parts, sources_dict, context, chat_calls>>
    /\ UNCHANGED <<chunk_vars, graph_vars, label_vars, extract_vars, pine_vars>>

\* if not context_parts: return the 'no information found' message.
ReturnNotFound ==
    /\ apc = "scan"
    /\ match_idx = Len(vector_results)
    /\ context_parts = <<>>
    /\ answer_result' = FixedMessage("not_found")
    /\ apc' = "done"
    /\ UNCHANGED <<question, emb_response, embedding, fb_i, vector_results,
                   match_idx, context_parts, sources_dict, context, chat_calls>>
    /\ UNCHANGED <<chunk_vars, graph_vars, label_vars, extract_vars, pine_vars>>

\* context = "\n\n---\n\n".join(context_parts[:5]) and the prompt.
BuildPrompt ==
    /\ apc = "scan"
    /\ match_idx = Len(vector_results)
    /\ context_parts # <<>>
    /\ context' = SubSeq(context_parts, 1, Min(MaxContexts, Len(context_parts)))
    /\ apc' = "chat"
    /\ UNCHANGED <<question, emb_response, embedding, fb_i, vector_results,
                   match_idx, context_parts, sources_dict, chat_calls, answer_result>>
    /\ UNCHANGED <<chunk_vars, graph_vars, label_vars, extract_vars, pine_vars>>

\* self.ollama_client.chat(...) replies; the reply is cleaned and cited.
ChatReplies ==
    /\ apc = "chat"
    /\ chat_calls' = chat_calls + 1
    /\ \E reply \in Replies : answer_result' = Answer(reply, sources_dict)
    /\ apc' = "done"
    /\ UNCHANGED <<question, emb_response, embedding, fb_i, vector_results,
                   match_idx, context_parts, sources_dict, context>>
    /\ UNCHANGED <<chunk_vars, graph_vars, label_vars, extract_vars, pine_vars>>

\* self.ollama_client.chat(...) raises: the except clause returns the error
\* message.
ChatFails ==
    /\ apc = "chat"
    /\ chat_calls' = chat_calls + 1
    /\ answer_result' = FixedMessage("error")
    /\ apc' = "done"
    /\ UNCHANGED <<question, emb_response, embedding, fb_i, vector_results,
                   match_idx, context_parts, sources_dict, context>>
    /\ UNCHANGED <<chunk_vars, graph_vars, label_vars, extract_vars, pine_vars>>

RagNext ==
    \/ EmbedReturns
    \/ EmbedFails
    \/ FallbackStep
    \/ FallbackReturns
    \/ IndexQuery
    \/ IndexQueryRaises
    \/ ScanMatch
    \/ ScanMatchRaises
    \/ ReturnNotFound
    \/ BuildPrompt
    \/ ChatReplies
    \/ ChatFails

RagSpecInit == RagInit /\ ChunkIdle /\ GraphIdle /\ LabelIdle /\ ExtractIdle /\ PineIdle

RagSpec == RagSpecInit /\ [][RagNext]_vars

(***************************************************************************)
(* extract_entities_with_llm.  The reply's content is a sequence of tokens: *)
(* "{" and "}", ",", and three pieces of JSON text: "e" is the member       *)
(* "entities": [], "n" is the member "entities": 5, and "k" is a key with   *)
(* its colon, "other":, whose value follows.                                *)
(***************************************************************************)
ReplyTokens == {"{", "}", ",", "e", "n", "k"}

Contents == UNION {[1..n -> ReplyTokens] : n \in 0..MaxReplyLen}

\* str.find: the 0-based index of the first occurrence of c, or -1.
Find(s, c) ==
    IF \E j \in 1..Len(s) : s[j] = c
    THEN (CHOOSE j \in 1..Len(s) : s[j] = c /\ \A h \in 1..(j - 1) : s[h] # c) - 1
    ELSE -1

\* str.rfind: the 0-based index of the last occurrence of c, or -1.
RFind(s, c) ==
    IF \E j \in 1..Len(s) : s[j] = c
    THEN (CHOOSE j \in 1..Len(s) : s[j] = c /\ \A h \in (j + 1)..Len(s) : s[h] # c) - 1
    ELSE -1

EmptyDict == [entities |-> "absent", relationships |-> "absent", other |-> "absent"]

ParseFailure == [ok |-> FALSE, next |-> 0, dict |-> EmptyDict]

\* The JSON decoder on an object that starts at position p of s: whether it
\* parses, the position after it, and the dict it decodes to (of a repeated
\* key the last value is kept).
RECURSIVE ParseObject(_, _)
RECURSIVE ParseMembers(_, _, _)
ParseObject(s, p) ==
    IF p > Len(s) \/ s[p] # "{" THEN ParseFailure
    ELSE IF p + 1 <= Len(s) /\ s[p + 1] = "}"
         THEN [ok |-> TRUE, next |-> p + 2, dict |-> EmptyDict]
         ELSE ParseMembers(s, p + 1, EmptyDict)

ParseMembers(s, p, d) ==
    LET member ==
            IF p > Len(s) THEN ParseFailure
            ELSE CASE s[p] = "e" ->
                        [ok |-> TRUE, next |-> p + 1,
                         dict |-> [d EXCEPT !.entities = "list"]]
                   [] s[p] = "n" ->
                        [ok |-> TRUE, next |-> p + 1,
                         dict |-> [d EXCEPT !.entities = "number"]]
                   [] s[p] = "k" ->
                        LET value == ParseObject(s, p + 1)
                        IN  IF value.ok
                            THEN [ok |-> TRUE, next |-> value.next,
                                  dict |-> [d EXCEPT !.other = "dict"]]
                            ELSE ParseFailure
                   [] OTHER -> ParseFailure
    IN  IF ~member.ok \/ member.next > Len(s) THEN ParseFailure
        ELSE IF s[member.next] = "}"
             THEN [ok |-> TRUE, next |-> member.next + 1, dict |-> member.dict]
             ELSE IF s[member.next] = ","
                  THEN ParseMembers(s, member.next + 1, member.dict)
                  ELSE ParseFailure

Returned(d) == [kind |-> "returned", value |-> d]

ExtractRaised == [kind |-> "raised", value |-> EmptyResult]

\* json.loads(json_str): the dict, or a JSONDecodeError when json_str is not
\* one JSON value from its first character to its last.
JsonLoads(json_str) ==
    LET parsed == ParseObject(json_str, 1)
    IN  IF parsed.ok /\ parsed.next = Len(json_str) + 1
        THEN Returned(parsed.dict)
        ELSE ExtractRaised

\* len(result.get('entities', [])) raises a TypeError on a number.
LenRaises(result) == result.entities = "number"

\* A slip: no except clause, the exception leaves the function.
NoExcept(outcome) == outcome

\* except Exception: return {"entities": [], "relationships": []}
ExceptReturnsEmpty(outcome) ==
    IF outcome.kind = "raised" THEN Returned(EmptyResult) ELSE outcome

\* if start >= 0 and end > start
HasJson == start >= 0 /\ end > start

\* The call begins; the prompt is built and the chat call is made.
ExtractInit ==
    /\ epc = "chat"
    /\ content = <<>>
    /\ start = -1
    /\ end = 0
    /\ extract_result = NoExtraction

\* self.ollama_client.chat returns, and content = response['message']['content'].
ExtractChatReplies ==
    /\ epc = "chat"
    /\ \E c \in Contents : content' = c
    /\ epc' = "find"
    /\ UNCHANGED <<start, end, extract_result>>
    /\ UNCHANGED <<chunk_vars, graph_vars, label_vars, rag_vars, pine_vars>>

\* The chat call raises, or the response has no message content.
ExtractChatFails ==
    /\ epc = "chat"
    /\ extract_result' = ExceptReturnsEmpty(ExtractRaised)
    /\ epc' = "done"
    /\ UNCHANGED <<content, start, end>>
    /\ UNCHANGED <<chunk_vars, graph_vars, label_vars, rag_vars, pine_vars>>

\* start = content.find('{'); end = content.rfind('}') + 1
ExtractFind ==
    /\ epc = "find"
    /\ start' = Find(content, "{")
    /\ end' = RFind(content, "}") + 1
    /\ epc' = "test"
    /\ UNCHANGED <<content, extract_result>>
    /\ UNCHANGED <<chunk_vars, graph_vars, label_vars, rag_vars, pine_vars>>

\* The condition holds: json.loads(content[start:end]), the debug message with
\* the number of entities, and return result; an exception of either goes to
\* the except clause.
ExtractParse ==
    /\ epc = "test"
    /\ HasJson
    /\ LET loaded == JsonLoads(PySlice(content, start, end))
           outcome == IF loaded.kind = "returned" /\ LenRaises(loaded.value)
                      THEN ExtractRaised
                      ELSE loaded
       IN  extract_result' = ExceptReturnsEmpty(outcome)
    /\ epc' = "done"
    /\ UNCHANGED <<content, start, end>>
    /\ UNCHANGED <<chunk_vars, graph_vars, label_vars, rag_vars, pine_vars>>

\* The condition fails: return {"entities": [], "relationships": []}.
ExtractNoJson ==
    /\ epc = "test"
    /\ ~HasJson
    /\ extract_result' = Returned(EmptyResult)
    /\ epc' = "done"
    /\ UNCHANGED <<content, start, end>>
    /\ UNCHANGED <<chunk_vars, graph_vars, label_vars, rag_vars, pine_vars>>

ExtractNext ==
    \/ ExtractChatReplies
    \/ ExtractChatFails
    \/ ExtractFind
    \/ ExtractParse
    \/ ExtractNoJson

ExtractSpecInit == ExtractInit /\ ChunkIdle /\ GraphIdle /\ LabelIdle /\ RagIdle /\ PineIdle

ExtractSpec == ExtractSpecInit /\ [][ExtractNext]_vars

(***************************************************************************)
(* store_in_pinecone.  A document id or filename is a sequence of string    *)
(* tokens; a chunk's text is a record of its identity and its length.       *)
(***************************************************************************)
DocIds == {<<"a">>, <<"a", "_chunk_", "0">>}

OriginalFilenames == {None, <<"x.pdf">>}

\* A chunk in the new format (a dict with text and page_num) or in the old
\* one (a string).
DictChunk(t, l, pg) == [format |-> "dict", text |-> [id |-> t, len |-> l], page_num |-> pg]
StrChunk(t, l) == [format |-> "str", text |-> [id |-> t, len |-> l]]

StoreChunkData == {DictChunk(1, StoredTextChars, 1), StrChunk(2, StoredTextChars + 1)}

StoreChunkLists == UNION {[1..n -> StoreChunkData] : n \in 0..MaxStoreChunks}

\* str(i) of an index below 10.
DecimalString(n) == <<"0", "1", "2", "3", "4", "5", "6", "7", "8", "9">>[n + 1]

\* A slip: the id leaves the document id out.
ChunkIdNoDoc(d, n) == <<"_chunk_", DecimalString(n)>>

\* f"{doc_id}_chunk_{i}"
ChunkId(d, n) == d \o <<"_chunk_", DecimalString(n)>>

\* Lines 154-159.
ChunkText(chunk_data) == chunk_data.text

ChunkPage(chunk_data) ==
    IF chunk_data.format = "dict" THEN chunk_data.page_num ELSE 0

\* chunk_text[:1000]
Truncate(t) == [t EXCEPT !.len = Min(@, StoredTextChars)]

\* The vector generate_embedding returns for a text.
EmbeddingOf(t) == [of |-> t.id]

\* Lines 162-172: the vector appended for chunk n.
VectorOf(chunk_data, n, d, fname) ==
    [id       |-> ChunkId(d, n),
     values   |-> EmbeddingOf(ChunkText(chunk_data)),
     metadata |-> [text              |-> Truncate(ChunkText(chunk_data)),
                   doc_id            |-> d,
                   original_filename |-> IF fname # None THEN fname ELSE d,
                   chunk_num         |-> n,
                   page_num          |-> ChunkPage(chunk_data)]]

\* The index after upsert(vectors=vs): a record per id, the last vector of an
\* id replacing the record the id had.
Upsert(idx, vs) ==
    LET ids == {vs[j].id : j \in 1..Len(vs)}
    IN  [id \in DOMAIN idx \cup ids |->
            IF id \in ids
            THEN LET last == CHOOSE j \in 1..Len(vs) :
                                /\ vs[j].id = id
                                /\ \A h \in (j + 1)..Len(vs) : vs[h].id # id
                 IN  [values |-> vs[last].values, metadata |-> vs[last].metadata]
            ELSE idx[id]]

\* A call of store_in_pinecone(chunks, doc_id, original_filename) begins.
PineBegin ==
    /\ ipc \in {"idle", "done", "failed"}
    /\ store_chunks' \in StoreChunkLists
    /\ doc_id' \in DocIds
    /\ original_filename' \in OriginalFilenames
    /\ vectors' = <<>>
    /\ chunk_num' = 0
    /\ ipc' = "loop"
    /\ UNCHANGED index
    /\ UNCHANGED <<chunk_vars, graph_vars, label_vars, rag_vars, extract_vars>>

\* One iteration of for i, chunk_data in enumerate(chunks).
PineChunk ==
    /\ ipc = "loop"
    /\ chunk_num < Len(store_chunks)
    /\ vectors' = Append(vectors, VectorOf(store_chunks[chunk_num + 1], chunk_num,
                                         doc_id, original_filename))
    /\ chunk_num' = chunk_num + 1
    /\ UNCHANGED <<index, ipc, store_chunks, doc_id, original_filename>>
    /\ UNCHANGED <<chunk_vars, graph_vars, label_vars, rag_vars, extract_vars>>

\* self.pinecone_index.upsert(vectors=vectors) succeeds, and the call returns.
PineUpsert ==
    /\ ipc = "loop"
    /\ chunk_num = Len(store_chunks)
    /\ index' = Upsert(index, vectors)
    /\ ipc' = "done"
    /\ store_chunks' = <<>>
    /\ doc_id' = <<>>
    /\ original_filename' = None
    /\ vectors' = <<>>
    /\ chunk_num' = 0
    /\ UNCHANGED <<chunk_vars, graph_vars, label_vars, rag_vars, extract_vars>>

\* The upsert raises: nothing is written, and the exception leaves the call.
PineUpsertRaises ==
    /\ ipc = "loop"
    /\ chunk_num = Len(store_chunks)
    /\ ipc' = "failed"
    /\ store_chunks' = <<>>
    /\ doc_id' = <<>>
    /\ original_filename' = None
    /\ vectors' = <<>>
    /\ chunk_num' = 0
    /\ UNCHANGED index
    /\ UNCHANGED <<chunk_vars, graph_vars, label_vars, rag_vars, extract_vars>>

PineNext ==
    \/ PineBegin
    \/ PineChunk
    \/ PineUpsert
    \/ PineUpsertRaises

PineSpecInit ==
    PineIdle /\ ChunkIdle /\ GraphIdle /\ LabelIdle /\ RagIdle /\ ExtractIdle

PineSpec == PineSpecInit /\ [][PineNext]_vars

(***************************************************************************)
(* Properties of chunk_text_with_pages.                                    *)
(***************************************************************************)
\* The chunks the call emitted for page p, in order.
ChunksOfPage(p) == SelectSeq(chunks, LAMBDA c : c.page_num = p)

PageWords(p) == Split(pages_data[p].text)

\* The cap of the model was reached: the run goes on outside the model.
ChunkCapped == i <= -MaxBack \/ Len(chunks) >= ChunkCap

\* C1: chunk_text_with_pages called with overlap >= chunk_size is rejected or
\* terminates: every such call eventually returns (the code has no path that
\* rejects), it never loops forever.  Runs that leave the model's bounds are
\* not counted against the claim.
C1_RejectedOrTerminates ==
    (overlap >= chunk_size) => <>(cpc = "done" \/ ChunkCapped)

\* C2 as stated: a page with fewer words than chunk_size (overlap < chunk_size)
\* yields exactly one chunk, equal to the trimmed page text, when that text is
\* longer than 50 characters, and no chunk otherwise.
C2_ShortPageOneChunk ==
    (cpc = "done" /\ overlap < chunk_size) =>
        \A p \in 1..Len(pages_data) :
            Len(PageWords(p)) < chunk_size =>
                LET trimmed == Strip(pages_data[p].text)
                IN  IF StrLen(trimmed) > MinChunkChars
                    THEN ChunksOfPage(p) =
                            <<[text |-> trimmed, page_num |-> pages_data[p].page_num]>>
                    ELSE ChunksOfPage(p) = <<>>

\* C2 amended: a page with fewer words than chunk_size and at most
\* chunk_size - overlap words (overlap < chunk_size) yields exactly one chunk,
\* equal to the page's words joined by single spaces, when that joined text is
\* longer than 50 characters, and no chunk otherwise; never two chunks.
C2_ShortPageOneChunkAmended ==
    (cpc = "done" /\ overlap < chunk_size) =>
        \A p \in 1..Len(pages_data) :
            (/\ Len(PageWords(p)) < chunk_size
             /\ Len(PageWords(p)) <= chunk_size - overlap) =>
                LET joined == Join(PageWords(p))
                IN  IF StrLen(joined) > MinChunkChars
                    THEN ChunksOfPage(p) =
                            <<[text |-> joined, page_num |-> pages_data[p].page_num]>>
                    ELSE ChunksOfPage(p) = <<>>

\* C2's case: a call returned with a short page that gave one chunk whose text
\* is not the trimmed page text, and another short page that gave none.
C2_Witness ==
    /\ cpc = "done"
    /\ overlap < chunk_size
    /\ \E p \in 1..Len(pages_data) :
        /\ Len(PageWords(p)) < chunk_size
        /\ Len(PageWords(p)) <= chunk_size - overlap
        /\ Len(ChunksOfPage(p)) = 1
        /\ ChunksOfPage(p)[1].text # Strip(pages_data[p].text)
    /\ \E p \in 1..Len(pages_data) :
        /\ Len(PageWords(p)) \in 1..(chunk_size - 1)
        /\ Len(PageWords(p)) <= chunk_size - overlap
        /\ ChunksOfPage(p) = <<>>

\* The windows of a page of n words, by the closed form: one for every k >= 0
\* with k * step < n, holding words k*step+1 .. k*step+chunk_size.
WindowAt(ws, k, cs, step) == SubSeq(ws, k * step + 1, Min(k * step + cs, Len(ws)))

PageWindows(ws, cs, step) ==
    IF ws = <<>> THEN <<>>
    ELSE [j \in 1..((Len(ws) - 1) \div step + 1) |-> WindowAt(ws, j - 1, cs, step)]

ExpectedPageChunks(p) ==
    LET wins == PageWindows(PageWords(p), chunk_size, chunk_size - overlap)
        kept == SelectSeq(wins, LAMBDA w : StrLen(Join(w)) > MinChunkChars)
    IN  [j \in 1..Len(kept) |->
            [text |-> Join(kept[j]), page_num |-> pages_data[p].page_num]]

RECURSIVE ExpectedChunks(_)
ExpectedChunks(p) ==
    IF p = 0 THEN <<>> ELSE ExpectedChunks(p - 1) \o ExpectedPageChunks(p)

\* C8: for overlap < chunk_size and step = chunk_size - overlap the call emits,
\* in page order and then offset order, the windows words[k*step : k*step +
\* chunk_size] (k >= 0, k*step < n) that are longer than 50 characters, each
\* tagged with its page's number; with chunk_size = 600 and overlap = 100 the
\* 50-word page gives 1 chunk and the 1200-word page 3, at offsets 0, 500, 1000.
C8_WindowsInOrder ==
    (cpc = "done" /\ overlap < chunk_size) =>
        /\ chunks = ExpectedChunks(Len(pages_data))
        /\ (pages_data = ScenarioPages /\ chunk_size = 600 /\ overlap = 100) =>
            /\ Len(ChunksOfPage(1)) = 1
            /\ Len(ChunksOfPage(2)) = 3
            /\ \A k \in 0..2 :
                 ChunksOfPage(2)[k + 1].text =
                    Join(SubSeq(PageWords(2), 500 * k + 1, Min(500 * k + 600, 1200)))

\* C8's case: the scenario's call returned its four chunks.
C8_Witness ==
    /\ cpc = "done"
    /\ pages_data = ScenarioPages
    /\ chunk_size = DefaultChunkSize
    /\ overlap = DefaultOverlap
    /\ Len(chunks) = 4

(***************************************************************************)
(* Properties of store_in_neo4j.                                           *)
(***************************************************************************)
\* C4: storing an entity whose name is already stored does not create a second
\* node: an iteration of the entity loop for a name some node already carries,
\* whatever the entity's type or description, leaves the node count unchanged.
C4_SameNameNoSecondNode ==
    [][ (/\ spc = "entities"
         /\ n_items' = n_items + 1
         /\ \E j \in 1..Len(nodes) : nodes[j].name = entity'.name)
        => Len(nodes') = Len(nodes) ]_vars

\* C5: every node label and relationship type interpolated into a MERGE query
\* consists only of characters legal in a schema identifier, whatever the
\* characters of the raw type string.
C5_QueryLabelsSanitized ==
    (lpc \in {"entity", "rel"}) => LegalChars(label_out)

\* C9: a relationship whose 'from' or 'to' name is not among the names resolved
\* by the same call is dropped without error: the iteration creates no edge,
\* raises nothing, and the loop over the relationships goes on.
C9_UnresolvedRelDropped ==
    [][ (/\ spc = "rels"
         /\ n_items' = n_items + 1
         /\ (entity_ids[rel'.from] = 0 \/ entity_ids[rel'.to] = 0))
        => (/\ edges' = edges
            /\ nodes' = nodes
            /\ spc' = "rels"
            /\ store_result' = "none") ]_vars

\* C9's case: the last relationship handled had a resolved 'from' and an
\* unresolved 'to' whose node an earlier call created; the loop is still
\* running, no edge exists and nothing was raised.
C9_Witness ==
    /\ spc = "rels"
    /\ rel # <<>>
    /\ entity_ids[rel.from] # 0
    /\ entity_ids[rel.to] = 0
    /\ \E j \in 1..Len(nodes) : nodes[j].name = rel.to
    /\ edges = {}
    /\ store_result = "none"

(***************************************************************************)
(* Properties of generate_embedding and answer_question.                   *)
(***************************************************************************)
\* C3: answer_question never propagates an exception to its caller: whatever
\* external call fails during it (query embedding, vector index query, chat
\* call, malformed match metadata), the call ends by returning a message.
C3_NeverPropagates ==
    (apc = "done") => answer_result.kind = "returned"

\* C6: generate_embedding always returns a vector of exactly 1024 components:
\* the model's vector zero-padded at the end when shorter, cut to its first
\* 1024 components when longer, and the hash fallback when the call fails.
C6_EmbeddingHas1024 ==
    (apc = "query") =>
        /\ Len(embedding) = 1024
        /\ emb_response.ok =>
            \A j \in 1..1024 :
                embedding[j] = IF j <= Len(emb_response.embedding)
                               THEN emb_response.embedding[j]
                               ELSE 0

\* C6's case: the model returned 1025 components and generate_embedding has
\* returned.
C6_Witness ==
    /\ apc = "query"
    /\ emb_response.ok
    /\ Len(emb_response.embedding) = 1025
    /\ Len(embedding) = 1024

\* The stored text of a match is a string of at most 100 characters, or absent.
StoredTextShort(md) ==
    ("text" \in DOMAIN md) => (md.text.kind = "str" /\ md.text.len <= 100)

\* C7: when none of the matches retrieved has stored text longer than 100
\* characters, answer_question returns the 'no information found' message and
\* makes no chat call at any point of the request.
C7_NoContextNoChat ==
    [][(/\ apc = "scan"
        /\ \A j \in 1..Len(vector_results) : StoredTextShort(vector_results[j]))
       => /\ chat_calls' = 0
          /\ apc' \in {"scan", "done"}
          /\ (apc' = "done") => answer_result' = FixedMessage("not_found")]_vars

\* C7's case: matches were retrieved, one of them with a text of exactly 100
\* characters and none longer, and the call has returned.
C7_Witness ==
    /\ apc = "done"
    /\ vector_results # <<>>
    /\ \A j \in 1..Len(vector_results) : StoredTextShort(vector_results[j])
    /\ \E j \in 1..Len(vector_results) :
            "text" \in DOMAIN vector_results[j] /\ vector_results[j].text.len = 100
    /\ answer_result = FixedMessage("not_found")
    /\ chat_calls = 0

\* A line of the known metadata patterns: it starts with 'uot', with the
\* reviewers marker or with 'professor ', or it holds the publisher word and
\* has fewer than 50 characters.
KnownMetadataLine(l) ==
    \/ l.lead = 0 /\ l.head \in {"uot", "rev", "prof"}
    \/ l.pub /\ l.lead + l.len < 50

\* C11: the answer text answer_question returns on the success path holds no
\* line of the known metadata patterns, whatever the model replied, also when
\* every line of the reply is such a line.
C11_NoMetadataLines ==
    (apc = "done" /\ answer_result.msg = "answer") =>
        \A j \in 1..Len(answer_result.lines) :
            ~KnownMetadataLine(answer_result.lines[j])


\* C14: on the fallback path every component i in 0..1023 comes from the two
\* hex characters of the 64-character digest at positions i mod 64 and
\* (i + 1) mod 64, read as one byte, so that the vector depends on the text
\* alone.
C14_CyclicHexPairs ==
    (apc = "fallback" \/ (apc = "query" /\ ~emb_response.ok)) =>
        LET h == HexDigest(question)
        IN  \A j \in 1..Len(embedding) :
                LET byte == 16 * h[((j - 1) % 64) + 1] + h[(j % 64) + 1]
                IN  embedding[j] = 200 * byte - 25500 + 255

\* The ranks of the matches whose stored text is longer than 100 characters.
QualifyingRanks ==
    {j \in 1..Len(vector_results) :
        /\ MetaText(vector_results[j]).kind = "str"
        /\ MetaText(vector_results[j]).len > 100}

\* The distinct positive pages of the matches of filename f with a rank in rs.
PagesAmong(rs, f) ==
    {MetaPage(vector_results[j]).v :
        j \in {r \in rs : /\ MetaFilename(vector_results[r]) = f
                          /\ MetaPage(vector_results[r]).v > 0}}

\* C13: the citations are appended exactly when the cleaned answer is longer
\* than 20 characters; each distinct filename of the qualifying matches is
\* cited once, with its distinct positive pages in ascending order, the 3
\* lowest at most, and an ellipsis exactly when it has more than 3.
C13_CitationsFormatted ==
    (apc = "done" /\ answer_result.msg = "answer") =>
        LET cites == answer_result.sources
        IN  /\ (cites # <<>>) <=> (LinesLen(answer_result.lines) > 20)
            /\ (cites # <<>>) =>
                /\ {cites[c].filename : c \in 1..Len(cites)}
                      = {MetaFilename(vector_results[j]) : j \in QualifyingRanks}
                /\ \A c, d \in 1..Len(cites) :
                      (c # d) => cites[c].filename # cites[d].filename
                /\ \A c \in 1..Len(cites) :
                      LET P  == PagesAmong(QualifyingRanks, cites[c].filename)
                          ps == cites[c].pages
                      IN  /\ Len(ps) = Min(3, Cardinality(P))
                          /\ \A m \in 1..Len(ps) : ps[m] \in P
                          /\ \A m \in 1..(Len(ps) - 1) : ps[m] < ps[m + 1]
                          /\ \A x \in P : \A m \in 1..Len(ps) :
                                (\A h \in 1..Len(ps) : ps[h] # x) => ps[m] < x
                          /\ cites[c].more <=> (Cardinality(P) > 3)

\* C13's case: an answer with citations, one of them for a filename whose
\* pages came in descending order and are more than 3.
C13_Witness ==
    /\ apc = "done"
    /\ answer_result.msg = "answer"
    /\ Len(vector_results) >= 4
    /\ MetaPage(vector_results[1]).v > MetaPage(vector_results[2]).v
    /\ \E c \in 1..Len(answer_result.sources) :
            /\ answer_result.sources[c].more
            /\ answer_result.sources[c].pages = <<1, 2, 3>>

\* The ranks of the qualifying matches whose text is joined into the context
\* of the prompt: the first 5 of them.
ContextRanks ==
    {j \in QualifyingRanks : Cardinality({h \in QualifyingRanks : h < j}) < 5}

\* C15: every filename and every page number of the citations comes from one
\* of the at most 5 qualifying matches whose text is in the context of the
\* prompt, never from a qualifying match left out of it.
C15_CitedSourcesInContext ==
    (apc = "done" /\ answer_result.msg = "answer") =>
        \A c \in 1..Len(answer_result.sources) :
            LET cite == answer_result.sources[c]
            IN  /\ cite.filename \in
                      {MetaFilename(vector_results[j]) : j \in ContextRanks}
                /\ \A m \in 1..Len(cite.pages) :
                      cite.pages[m] \in PagesAmong(ContextRanks, cite.filename)

(***************************************************************************)
(* Properties of extract_entities_with_llm.                                *)
(***************************************************************************)
\* The reply has a '{' before a '}'.
BraceBeforeBrace ==
    \E a, b \in 1..Len(content) : a < b /\ content[a] = "{" /\ content[b] = "}"

\* The text from the first '{' to the last '}' of the reply.
BetweenBraces ==
    LET a == CHOOSE j \in 1..Len(content) :
                content[j] = "{" /\ \A h \in 1..(j - 1) : content[h] # "{"
        b == CHOOSE j \in 1..Len(content) :
                content[j] = "}" /\ \A h \in (j + 1)..Len(content) : content[h] # "}"
    IN  SubSeq(content, a, b)

\* The call ended without a reply of the model.
ChatFailed == epc = "done" /\ start = -1 /\ end = 0 /\ content = <<>>

\* C10: extract_entities_with_llm never raises, and returns exactly
\* {entities: [], relationships: []} if the model call fails, if the reply has
\* no '{' before a '}', or if the text between the first '{' and the last '}'
\* is not valid JSON.
C10_ExtractNeverRaises ==
    (epc = "done") =>
        /\ extract_result.kind = "returned"
        /\ (\/ ChatFailed
            \/ ~BraceBeforeBrace
            \/ JsonLoads(BetweenBraces).kind = "raised")
           => extract_result.value = EmptyResult

\* C10's case: the reply has a '{' before a '}' with text between them that is
\* not valid JSON, and the call has returned.
C10_Witness ==
    /\ epc = "done"
    /\ BraceBeforeBrace
    /\ JsonLoads(BetweenBraces).kind = "raised"
    /\ extract_result = Returned(EmptyResult)

(***************************************************************************)
(* Properties of store_in_pinecone.                                        *)
(***************************************************************************)
\* The id doc_id_chunk_k.
NamedId(d, k) ==
    d \o <<"_chunk_">> \o <<CASE k = 0 -> "0" [] k = 1 -> "1" [] k = 2 -> "2"
                              [] k = 3 -> "3" [] OTHER -> "4">>

\* C12: a call with n chunks that upserts writes exactly the ids
\* doc_id_chunk_0 .. doc_id_chunk_{n-1}: each of them holds the values of this
\* call afterwards, and every other record of the index, of another document
\* id or of this one with an index of n or more, is unchanged.
C12_UpsertWritesOwnIds ==
    [][(ipc = "loop" /\ ipc' = "done") =>
        LET n   == Len(store_chunks)
            ids == {NamedId(doc_id, k) : k \in 0..(n - 1)}
        IN  /\ DOMAIN index' = DOMAIN index \cup ids
            /\ \A k \in 0..(n - 1) :
                LET r == index'[NamedId(doc_id, k)]
                    c == store_chunks[k + 1]
                IN  /\ r.values = EmbeddingOf(c.text)
                    /\ r.metadata.text.id = c.text.id
                    /\ r.metadata.text.len = Min(c.text.len, 1000)
                    /\ r.metadata.doc_id = doc_id
                    /\ r.metadata.chunk_num = k
                    /\ r.metadata.page_num =
                          (IF c.format = "dict" THEN c.page_num ELSE 0)
                    /\ r.metadata.original_filename =
                          (IF original_filename # <<>> THEN original_filename
                           ELSE doc_id)
            /\ \A id \in DOMAIN index :
                (\/ id \notin ids
                 \/ index[id].metadata.doc_id # doc_id
                 \/ index[id].metadata.chunk_num >= n)
                => index'[id] = index[id]]_vars

\* C12's case: chunks 0 and 1 of a document id carry different filenames, so
\* that chunk 0 was written again by a later, shorter call and the old chunk 1
\* is still there, and the text of that chunk 0 is also stored under another
\* document id.
C12_Witness ==
    /\ ipc = "done"
    /\ \E d \in {<<"a">>, <<"a", "_chunk_", "0">>} :
        /\ {NamedId(d, 0), NamedId(d, 1)} \subseteq DOMAIN index
        /\ index[NamedId(d, 0)].metadata.original_filename
              # index[NamedId(d, 1)].metadata.original_filename
        /\ index[NamedId(d, 0)].values # index[NamedId(d, 1)].values
        /\ \E id \in DOMAIN index :
                /\ index[id].metadata.doc_id # d
                /\ index[id].metadata.text = index[NamedId(d, 0)].metadata.text

=============================================================================
